---- MODULE Spec2Model ----
(***************************************************************************)
(* Model of the chat applications Zuri_POC.py and agent2_poc.py:           *)
(*   - the persistence shim (class DatabaseManager, tables users, chats),  *)
(*   - the remote-assistant client (class ZuuriAssistant),                 *)
(*   - the UI driver (main and its helpers).                               *)
(* The two files share the shim and the driver line for line; they differ  *)
(* in send_message (poll step, budget, tool-call resolution).              *)
(***************************************************************************)
EXTENDS Integers, Sequences, FiniteSets, TLC

\* ------------------------------------------------------------------------
\* Bounds of the model
\* ------------------------------------------------------------------------
MaxClock == 1          \* seconds the clock may advance
MaxChats == 2          \* chat rows alive at a time
MaxCount == 2          \* lists are counted up to MaxCount ("MaxCount or more")

\* ------------------------------------------------------------------------
\* Value pools
\* ------------------------------------------------------------------------
NULL == "NULL"                     \* Python None / SQL NULL
UserIds == {"u1", "u2"}
ChatIdPool == <<"c1", "c2", "c3">> \* str(uuid4())[:8] values, in order of issue
UiChatIdPool == SubSeq(ChatIdPool, 1, 2)   \* those the UI sessions hand out
ThreadPool == <<"th1", "th2">>     \* ids the remote gives to new threads
AsstPool == <<"a1", "a2">>         \* ids the remote gives to new personas
ChatIds == {ChatIdPool[i] : i \in 1..Len(ChatIdPool)}
ThreadIds == {ThreadPool[i] : i \in 1..Len(ThreadPool)}
AsstIds == {AsstPool[i] : i \in 1..Len(AsstPool)}
DefaultTitle == "Chat"             \* f"Chat {now:%m/%d %H:%M}"
WelcomeTitle == "Welcome"          \* "Welcome to Zurii!" / "Welcome to genie 2.0!"

\* The length of a list after n more entries, counted up to MaxCount
Plus(len, n) == IF len + n > MaxCount THEN MaxCount ELSE len + n

\* Python truthiness of an optional string: None and "" are falsy
Truthy(x) == x # NULL /\ x # ""

VARIABLES
    \* the local store
    users,            \* table users: id -> [assistant_id]
    chats,            \* table chats: rows in rowid (insertion) order
    clock,            \* CURRENT_TIMESTAMP, in whole seconds
    nextChatId,       \* index in ChatIdPool of the next fresh chat id
    deletedChats,     \* chat ids on which delete_chat has run
    call,             \* the shim operation performed by the last step
    \* st.session_state of the one UI session
    session_user,     \* st.session_state.user_id
    current_chat_id,
    messages,         \* st.session_state.messages, as its length
    assistant, assistant_id,
    \* the remote API
    threads,          \* thread id -> number of turns of the thread
    nextAsst,         \* index in AsstPool of the next persona id
    goc,              \* the call of get_or_create_assistant of this session
    ui,               \* the last interaction the session handled
    \* one call of send_message
    variant,          \* "zuri" (Zuri_POC.py) or "agent2" (agent2_poc.py)
    pc,               \* where the call is: idle, polling, awaiting_tool_output, done
    wait_time,        \* the local wait_time
    run_status,       \* run.status of the local run object
    tool_calls,       \* the pending calls of the requires_action being resolved
    tool_outputs,     \* the batch of the last submit_tool_outputs
    retrieves,        \* calls of runs.retrieve
    submits,          \* calls of runs.submit_tool_outputs
    image_calls,      \* calls of images.generate, counted up to MaxCount
    ra_kind,          \* what the retrieves reported as requires_action so far
    only_queued,      \* every status reported so far was queued
    listed,           \* what messages.list(limit=1) gave after completion
    reply,            \* what send_message returned
    raised_at,        \* the call of send_message that raised, if one did
    earlier_active,   \* a run of an earlier turn on the thread is not over
    \* two sessions of one user in get_or_create_assistant
    proc,
    \* one call of generate_chat_title
    title_input, new_title,
    \* one call of get_thread_messages
    remote_thread, formatted_messages

dbvars == <<users, chats, clock, nextChatId, deletedChats, call>>
sessvars == <<session_user, current_chat_id, messages, assistant, assistant_id>>
remotevars == <<threads, nextAsst, goc, ui>>
sendvars == <<variant, pc, wait_time, run_status, tool_calls, tool_outputs,
              retrieves, submits, image_calls, ra_kind, only_queued, listed,
              reply, raised_at, earlier_active>>
fnvars == <<proc, title_input, new_title, remote_thread, formatted_messages>>
vars == <<dbvars, sessvars, remotevars, sendvars, fnvars>>

\* ------------------------------------------------------------------------
\* Persistence shim: DatabaseManager
\* ------------------------------------------------------------------------
NoCall == [op |-> "none", chat_id |-> NULL, thread_id |-> NULL,
           title |-> NULL]

ChatIndex(cs, chat_id) == {i \in 1..Len(cs) : cs[i].id = chat_id}
HasChat(cs, chat_id) == ChatIndex(cs, chat_id) # {}
ChatRow(cs, chat_id) == cs[CHOOSE i \in ChatIndex(cs, chat_id) : TRUE]

IdsOfList(l) == {l[i].id : i \in 1..Len(l)}

\* A mutant of create_user: INSERT OR REPLACE
create_user_replace(us, user_id, asst) ==
    [u \in DOMAIN us \cup {user_id} |->
        IF u = user_id THEN [assistant_id |-> asst] ELSE us[u]]

\* INSERT OR IGNORE INTO users (id, assistant_id)
\* (created_at is written by default and read by no statement: left out)
create_user(us, user_id, asst) ==
    IF user_id \in DOMAIN us THEN us
    ELSE us @@ (user_id :> [assistant_id |-> asst])

\* UPDATE users SET assistant_id = ? WHERE id = ?
update_user_assistant(us, user_id, asst) ==
    IF user_id \in DOMAIN us
    THEN [us EXCEPT ![user_id].assistant_id = asst]
    ELSE us

\* SELECT assistant_id FROM users WHERE id = ?  (None when there is no row)
get_user_assistant(us, user_id) ==
    IF user_id \in DOMAIN us THEN us[user_id].assistant_id ELSE NULL

\* INSERT INTO chats (id, user_id, title, thread_id); both timestamps default
\* to CURRENT_TIMESTAMP
create_chat(cs, chat_id, user_id, title, thread_id, now) ==
    Append(cs, [id |-> chat_id, user_id |-> user_id, title |-> title,
                thread_id |-> thread_id, created_at |-> now,
                updated_at |-> now])

\* A mutant of update_chat: the thread_id column is always written
update_chat_clobber(cs, chat_id, thread_id, title, now) ==
    [i \in 1..Len(cs) |->
        IF cs[i].id = chat_id
        THEN [cs[i] EXCEPT !.thread_id = thread_id,
                           !.title = IF Truthy(title) THEN title ELSE @,
                           !.updated_at = now]
        ELSE cs[i]]

\* update_chat: only the supplied (truthy) columns are set; the UPDATE, and
\* with it updated_at = CURRENT_TIMESTAMP, runs only when one is supplied
update_chat(cs, chat_id, thread_id, title, now) ==
    IF Truthy(thread_id) \/ Truthy(title)
    THEN [i \in 1..Len(cs) |->
            IF cs[i].id = chat_id
            THEN [cs[i] EXCEPT
                    !.thread_id = IF Truthy(thread_id) THEN thread_id ELSE @,
                    !.title = IF Truthy(title) THEN title ELSE @,
                    !.updated_at = now]
            ELSE cs[i]]
    ELSE cs

\* A mutant of delete_chat: the WHERE clause is lost
delete_chat_all(cs, chat_id) == SubSeq(cs, 1, 0)

\* DELETE FROM chats WHERE id = ?
delete_chat(cs, chat_id) == SelectSeq(cs, LAMBDA r : r.id # chat_id)

\* Insert a row into a list sorted by updated_at descending, after every
\* row whose updated_at is not smaller (rows arrive in rowid order and the
\* ORDER BY sorter of SQLite keeps equal keys in arrival order)
RECURSIVE InsertDesc(_, _)
InsertDesc(sorted, r) ==
    IF sorted = <<>> THEN <<r>>
    ELSE IF Head(sorted).updated_at >= r.updated_at
         THEN <<Head(sorted)>> \o InsertDesc(Tail(sorted), r)
         ELSE <<r>> \o sorted

RECURSIVE SortDesc(_)
SortDesc(rows) ==
    IF rows = <<>> THEN <<>>
    ELSE InsertDesc(SortDesc(SubSeq(rows, 1, Len(rows) - 1)), rows[Len(rows)])

ChatDict(r) == [id |-> r.id, title |-> r.title, created_at |-> r.created_at,
                updated_at |-> r.updated_at, thread_id |-> r.thread_id]

\* A mutant of get_user_chats: the ORDER BY clause is lost (rowid order)
get_user_chats_unordered(cs, user_id) ==
    LET owned == SelectSeq(cs, LAMBDA r : r.user_id = user_id)
    IN [i \in 1..Len(owned) |-> ChatDict(owned[i])]

\* SELECT id, title, created_at, updated_at, thread_id FROM chats
\* WHERE user_id = ? ORDER BY updated_at DESC
get_user_chats(cs, user_id) ==
    LET owned == SelectSeq(cs, LAMBDA r : r.user_id = user_id)
        sorted == SortDesc(owned)
    IN [i \in 1..Len(sorted) |-> ChatDict(sorted[i])]

\* SELECT id, title, thread_id, created_at FROM chats WHERE id = ?
\* fetchone(): the empty sequence stands for None, <<d>> for the dict d
get_chat_details(cs, chat_id) ==
    IF HasChat(cs, chat_id)
    THEN LET r == ChatRow(cs, chat_id)
         IN <<[id |-> r.id, title |-> r.title, thread_id |-> r.thread_id,
               created_at |-> r.created_at]>>
    ELSE <<>>

\* ------------------------------------------------------------------------
\* The shim driven directly, one operation per step
\* ------------------------------------------------------------------------
Tick ==
    /\ clock < MaxClock
    /\ clock' = clock + 1
    /\ UNCHANGED <<users, chats, nextChatId, deletedChats, call>>
    /\ UNCHANGED <<sessvars, remotevars>>
    /\ UNCHANGED <<sendvars, fnvars>>

DbCreateChat(u, t) ==
    /\ nextChatId <= Len(ChatIdPool)
    /\ Len(chats) < MaxChats
    /\ chats' = create_chat(chats, ChatIdPool[nextChatId], u, t, NULL, clock)
    /\ nextChatId' = nextChatId + 1
    /\ call' = [NoCall EXCEPT !.op = "create_chat",
                              !.chat_id = ChatIdPool[nextChatId], !.title = t]
    /\ UNCHANGED <<users, clock, deletedChats, sessvars, remotevars>>
    /\ UNCHANGED <<sendvars, fnvars>>

DbUpdateChat(c, th, t) ==
    /\ HasChat(chats, c)
    /\ chats' = update_chat(chats, c, th, t, clock)
    /\ call' = [NoCall EXCEPT !.op = "update_chat", !.chat_id = c,
                              !.thread_id = th, !.title = t]
    /\ UNCHANGED <<users, clock, nextChatId, deletedChats, sessvars, remotevars>>
    /\ UNCHANGED <<sendvars, fnvars>>

DbDeleteChat(c) ==
    /\ HasChat(chats, c)
    /\ chats' = delete_chat(chats, c)
    /\ deletedChats' = deletedChats \cup {c}
    /\ call' = [NoCall EXCEPT !.op = "delete_chat", !.chat_id = c]
    /\ UNCHANGED <<users, clock, nextChatId, sessvars, remotevars>>
    /\ UNCHANGED <<sendvars, fnvars>>

NoGoc == [cached |-> NULL, retrieve_calls |-> 0, create_calls |-> 0,
          created |-> NULL, ret |-> NULL]

\* handler: the interaction; create_thread_calls: the calls of create_thread
\* it made; sent_to: the thread send_message was called with, if it was
NoUi == [handler |-> "none", create_thread_calls |-> 0, sent_to |-> NULL]
Ui(h) == [NoUi EXCEPT !.handler = h]

\* no session is open and nothing has been asked of the remote
IdleRest ==
    /\ session_user = NULL /\ current_chat_id = NULL /\ messages = 0
    /\ assistant = FALSE /\ assistant_id = NULL
    /\ threads = [t \in {} |-> 0] /\ nextAsst = 1 /\ goc = NoGoc /\ ui = NoUi

\* no call of send_message is being followed
IdleSend ==
    /\ variant = "zuri" /\ pc = "idle" /\ wait_time = 0 /\ run_status = NULL
    /\ tool_calls = <<>> /\ tool_outputs = <<>>
    /\ retrieves = 0 /\ submits = 0 /\ image_calls = 0
    /\ ra_kind = "none" /\ only_queued = TRUE /\ listed = NULL /\ reply = NULL
    /\ raised_at = NULL /\ earlier_active = FALSE

\* no call of the functions followed on their own is being followed
IdleFn ==
    /\ proc = <<>>
    /\ title_input = NULL /\ new_title = NULL
    /\ remote_thread = NULL /\ formatted_messages = NULL

\* The users rows are those earlier sessions left behind
InitDB ==
    /\ users = [u \in UserIds |-> [assistant_id |-> IF u = "u1" THEN "a1" ELSE NULL]]
    /\ chats = <<>>
    /\ clock = 0
    /\ nextChatId = 1
    /\ deletedChats = {}
    /\ call = NoCall
    /\ IdleRest
    /\ IdleSend
    /\ IdleFn

NextDB ==
    \/ Tick
    \/ \E u \in UserIds : DbCreateChat(u, DefaultTitle)
    \/ \E c \in ChatIds, th \in {NULL, "th1"}, t \in {NULL, "", "t1"} :
          DbUpdateChat(c, th, t)
    \/ \E c \in ChatIds : DbDeleteChat(c)

SpecDB == InitDB /\ [][NextDB]_vars

\* ------------------------------------------------------------------------
\* Remote-assistant client: persona and thread
\* ------------------------------------------------------------------------
\* A mutant of get_or_create_assistant: a stale cached id is not overwritten
get_or_create_assistant_stale(us, user_id, retrieveOk, createOk, fresh) ==
    LET cached == get_user_assistant(us, user_id)
        base == [NoGoc EXCEPT !.cached = cached,
                    !.retrieve_calls = IF Truthy(cached) THEN 1 ELSE 0]
    IN IF Truthy(cached) /\ retrieveOk
       THEN [users |-> us, goc |-> [base EXCEPT !.ret = cached]]
       ELSE [users |-> IF createOk /\ ~Truthy(cached)
                       THEN update_user_assistant(us, user_id, fresh) ELSE us,
             goc |-> [base EXCEPT !.create_calls = 1,
                         !.created = IF createOk THEN fresh ELSE NULL,
                         !.ret = IF createOk THEN fresh ELSE NULL]]

\* A mutant of get_or_create_assistant: a failed creation clears the
\* cached id
get_or_create_assistant_clears(us, user_id, retrieveOk, createOk, fresh) ==
    LET cached == get_user_assistant(us, user_id)
        base == [NoGoc EXCEPT !.cached = cached,
                    !.retrieve_calls = IF Truthy(cached) THEN 1 ELSE 0]
    IN IF Truthy(cached) /\ retrieveOk
       THEN [users |-> us, goc |-> [base EXCEPT !.ret = cached]]
       ELSE IF createOk
       THEN [users |-> update_user_assistant(us, user_id, fresh),
             goc |-> [base EXCEPT !.create_calls = 1, !.created = fresh,
                                  !.ret = fresh]]
       ELSE [users |-> update_user_assistant(us, user_id, NULL),
             goc |-> [base EXCEPT !.create_calls = 1]]

\* A mutant of get_or_create_assistant: the answer of the retrieve is not
\* used, a persona is created on every call
get_or_create_assistant_recreate(us, user_id, retrieveOk, createOk, fresh) ==
    LET cached == get_user_assistant(us, user_id)
        base == [NoGoc EXCEPT !.cached = cached,
                    !.retrieve_calls = IF Truthy(cached) THEN 1 ELSE 0]
    IN IF createOk
       THEN [users |-> update_user_assistant(us, user_id, fresh),
             goc |-> [base EXCEPT !.create_calls = 1, !.created = fresh,
                                  !.ret = fresh]]
       ELSE [users |-> us, goc |-> [base EXCEPT !.create_calls = 1]]

\* get_or_create_assistant(user_id, db): the cached id when the remote
\* retrieve confirms it; otherwise one creation call, whose id is saved and
\* returned, or None when the creation raises.  retrieveOk and createOk are
\* what the remote answers, fresh the id a created persona gets.  The
\* result holds the users table afterwards and the record of the call.
get_or_create_assistant(us, user_id, retrieveOk, createOk, fresh) ==
    LET cached == get_user_assistant(us, user_id)
        base == [NoGoc EXCEPT !.cached = cached,
                    !.retrieve_calls = IF Truthy(cached) THEN 1 ELSE 0]
    IN IF Truthy(cached) /\ retrieveOk
       THEN [users |-> us, goc |-> [base EXCEPT !.ret = cached]]
       ELSE IF createOk
       THEN [users |-> update_user_assistant(us, user_id, fresh),
             goc |-> [base EXCEPT !.create_calls = 1, !.created = fresh,
                                  !.ret = fresh]]
       ELSE [users |-> us, goc |-> [base EXCEPT !.create_calls = 1]]

\* A mutant of get_thread_messages: the listing gives one entry too many
get_thread_messages_extra(thr, thread_id, listOk) ==
    IF listOk /\ thread_id \in DOMAIN thr THEN Plus(thr[thread_id], 1) ELSE 0

\* get_thread_messages(thread_id): one entry per turn of the thread, or
\* the empty list when the listing raises.  A list of turns is kept as its
\* length, exact below MaxCount: the driver only appends to the list and
\* tests its length against 1.
get_thread_messages(thr, thread_id, listOk) ==
    IF listOk /\ thread_id \in DOMAIN thr THEN thr[thread_id] ELSE 0

\* ------------------------------------------------------------------------
\* UI driver helpers
\* ------------------------------------------------------------------------
TitleLimit == 30
TitleKeep == 27

\* the whitespace str.strip() removes, as far as the inputs here have it
IsSpace(s, i) == SubSeq(s, i, i) \in {" ", "\t", "\n"}

RECURSIVE LStrip(_)
LStrip(s) == IF Len(s) > 0 /\ IsSpace(s, 1) THEN LStrip(SubSeq(s, 2, Len(s))) ELSE s

RECURSIVE RStrip(_)
RStrip(s) == IF Len(s) > 0 /\ IsSpace(s, Len(s))
             THEN RStrip(SubSeq(s, 1, Len(s) - 1)) ELSE s

\* str.strip()
Strip(s) == RStrip(LStrip(s))

\* A mutant of generate_chat_title: the cut keeps TitleLimit characters
generate_chat_title_long(first_message) ==
    LET title == Strip(first_message)
    IN IF Len(title) > TitleLimit THEN SubSeq(title, 1, TitleLimit) \o "..." ELSE title

\* generate_chat_title(first_message)
generate_chat_title(first_message) ==
    LET title == Strip(first_message)
    IN IF Len(title) > TitleLimit THEN SubSeq(title, 1, TitleKeep) \o "..." ELSE title

\* load_chat(db, assistant, chat_id): the buffer and the current chat after
load_chat(cs, thr, chat_id, listOk) ==
    LET chat_details == get_chat_details(cs, chat_id)
    IN [messages |-> IF chat_details # <<>> /\ Truthy(chat_details[1].thread_id)
                     THEN get_thread_messages(thr, chat_details[1].thread_id, listOk)
                     ELSE 0,
        current_chat_id |-> chat_id]

\* A mutant of restore_last_chat: no chat is restored
restore_last_chat_off(cs, thr, st, hasAssistant, user, listOk) == st

\* restore_last_chat(db, assistant, user_id) on the session state st
restore_last_chat(cs, thr, st, hasAssistant, user, listOk) ==
    LET user_chats == get_user_chats(cs, user)
    IN IF hasAssistant /\ user_chats # <<>> /\ ~Truthy(st.current_chat_id)
       THEN load_chat(cs, thr, user_chats[1].id, listOk)
       ELSE st

\* What every run of main does around the event it handles: the last chat
\* is restored when a persona is set and no chat is current (lines
\* 508-509), and a user without any chat gets the welcome chat (631-635).
\* The result holds the chats table and the session state afterwards.
RunMain(cs, thr, st, hasAssistant, asstId, user, listOk, now, freshChat) ==
    IF ~(hasAssistant /\ Truthy(asstId))
    THEN [chats |-> cs, st |-> st, created |-> FALSE]
    ELSE LET st1 == restore_last_chat(cs, thr, st, hasAssistant, user, listOk)
         IN IF ~Truthy(st1.current_chat_id) /\ get_user_chats(cs, user) = <<>>
            THEN [chats |-> create_chat(cs, freshChat, user, WelcomeTitle, NULL, now),
                  st |-> [st1 EXCEPT !.current_chat_id = freshChat],
                  created |-> TRUE]
            ELSE [chats |-> cs, st |-> st1, created |-> FALSE]

SessionState == [messages |-> messages, current_chat_id |-> current_chat_id]
HasFreshChat == nextChatId <= Len(UiChatIdPool) /\ Len(chats) < MaxChats
FreshChat == IF nextChatId <= Len(UiChatIdPool) THEN UiChatIdPool[nextChatId] ELSE NULL
FreshAsst == IF nextAsst <= Len(AsstPool) THEN AsstPool[nextAsst] ELSE NULL
FreshThread == IF Cardinality(DOMAIN threads) < Len(ThreadPool)
               THEN ThreadPool[Cardinality(DOMAIN threads) + 1] ELSE NULL

\* the run of main ends: its effect r on the store and the session
EndRun(r) ==
    /\ r.created => HasFreshChat
    /\ chats' = r.chats
    /\ nextChatId' = IF r.created THEN nextChatId + 1 ELSE nextChatId
    /\ messages' = r.st.messages
    /\ current_chat_id' = r.st.current_chat_id

\* ------------------------------------------------------------------------
\* UI driver: one action per user interaction, with the rerun it triggers
\* ------------------------------------------------------------------------
\* A browser session opens for user u: initialize_session_state
StartSession(u) ==
    /\ session_user' = u
    /\ current_chat_id' = NULL
    /\ messages' = 0
    /\ assistant' = FALSE
    /\ assistant_id' = NULL
    /\ users' = create_user(users, u, NULL)
    /\ goc' = NoGoc
    /\ ui' = Ui("start")
    /\ UNCHANGED <<chats, clock, nextChatId, deletedChats, call, threads, nextAsst>>
    /\ UNCHANGED <<sendvars, fnvars>>

\* The API key is entered: main, lines 491-509 and 630-635
EnterApiKey(retrieveOk, createOk, listOk) ==
    /\ session_user # NULL
    /\ ~assistant
    /\ createOk => FreshAsst # NULL
    /\ LET g == get_or_create_assistant(users, session_user, retrieveOk,
                                        createOk, FreshAsst)
           r == RunMain(chats, threads, SessionState, TRUE, g.goc.ret,
                        session_user, listOk, clock, FreshChat)
       IN /\ users' = g.users
          /\ goc' = g.goc
          /\ nextAsst' = IF g.goc.created # NULL THEN nextAsst + 1 ELSE nextAsst
          /\ assistant' = TRUE
          /\ assistant_id' = g.goc.ret
          /\ EndRun(r)
    /\ ui' = Ui("api_key")
    /\ UNCHANGED <<clock, deletedChats, call, session_user, threads>>
    /\ UNCHANGED <<sendvars, fnvars>>

\* "New Chat" is pressed: main, lines 516-520
NewChat ==
    /\ session_user # NULL
    /\ HasFreshChat
    /\ chats' = create_chat(chats, FreshChat, session_user, DefaultTitle, NULL, clock)
    /\ nextChatId' = nextChatId + 1
    /\ current_chat_id' = FreshChat
    /\ messages' = 0
    /\ ui' = Ui("new_chat")
    /\ UNCHANGED <<users, clock, deletedChats, call, session_user, assistant,
                   assistant_id, threads, nextAsst, goc>>
    /\ UNCHANGED <<sendvars, fnvars>>

\* A chat of the list is pressed: main, lines 531-539
SelectChat(c, listOk) ==
    /\ session_user # NULL
    /\ c \in IdsOfList(get_user_chats(chats, session_user))
    /\ assistant
    /\ LET st == load_chat(chats, threads, c, listOk)
       IN EndRun(RunMain(chats, threads, st, assistant, assistant_id,
                         session_user, listOk, clock, FreshChat))
    /\ ui' = Ui("select_chat")
    /\ UNCHANGED <<users, clock, deletedChats, call, session_user, assistant,
                   assistant_id, threads, nextAsst, goc>>
    /\ UNCHANGED <<sendvars, fnvars>>

\* The delete button of a chat is pressed: main, lines 541-547
DeleteChat(c, listOk) ==
    /\ session_user # NULL
    /\ c \in IdsOfList(get_user_chats(chats, session_user))
    /\ LET cs == delete_chat(chats, c)
           st == IF c = current_chat_id
                 THEN [messages |-> 0, current_chat_id |-> NULL]
                 ELSE SessionState
       IN EndRun(RunMain(cs, threads, st, assistant, assistant_id,
                         session_user, listOk, clock, FreshChat))
    /\ deletedChats' = deletedChats \cup {c}
    /\ ui' = Ui("delete_chat")
    /\ UNCHANGED <<users, clock, call, session_user, assistant, assistant_id,
                   threads, nextAsst, goc>>
    /\ UNCHANGED <<sendvars, fnvars>>

\* What send_message leaves on the remote thread: nothing when the append
\* of the user turn raises, the user turn when the run does not complete,
\* the user turn and the reply when it completes
send_message_turns(turns, sent) ==
    CASE sent = "append_failed" -> turns
      [] sent = "no_reply" -> Plus(turns, 1)
      [] sent = "replied" -> Plus(turns, 2)

SendResults == {"append_failed", "no_reply", "replied"}

\* A mutant of NeedsThread: a thread is created for every prompt
NeedsThread_always(chat_details) == chat_details = chat_details

\* "if not chat_details['thread_id']"
NeedsThread(chat_details) == ~Truthy(chat_details[1].thread_id)

\* A mutant of PromptHandler: the return after a failed create_thread is
\* missing, so the handler goes on to the buffer and the title
PromptHandler_no_return(cs, thr, st, prompt, threadOk, sent, now, later, freshThread) ==
    LET cur == st.current_chat_id
        chat_details == get_chat_details(cs, cur)
    IN IF chat_details = <<>>
       THEN [chats |-> cs, threads |-> thr, st |-> st, ui |-> Ui("prompt")]
       ELSE
         LET need == ~Truthy(chat_details[1].thread_id)
             made == need /\ threadOk
             thread_id == IF need THEN (IF threadOk THEN freshThread ELSE NULL)
                          ELSE chat_details[1].thread_id
             thr1 == IF made THEN thr @@ (freshThread :> 0) ELSE thr
             cs1 == IF made THEN update_chat(cs, cur, thread_id, NULL, now) ELSE cs
             msgs1 == Plus(st.messages, 1)
             cs2 == IF msgs1 = 1
                    THEN update_chat(cs1, cur, NULL, generate_chat_title(prompt), now)
                    ELSE cs1
             thr2 == IF thread_id = NULL THEN thr1
                     ELSE [thr1 EXCEPT ![thread_id] = send_message_turns(@, sent)]
             msgs2 == Plus(msgs1, 1)
         IN [chats |-> cs2, threads |-> thr2,
             st |-> [st EXCEPT !.messages = msgs2],
             ui |-> [Ui("prompt") EXCEPT
                       !.create_thread_calls = IF need THEN 1 ELSE 0,
                       !.sent_to = thread_id]]

\* The prompt handler of main (lines 651-692) on the store cs, the remote
\* threads thr and the session state st.  threadOk: create_thread succeeds,
\* giving the id freshThread; sent: what send_message achieves; now, later:
\* the time before and after send_message.
PromptHandler(cs, thr, st, prompt, threadOk, sent, now, later, freshThread) ==
    LET cur == st.current_chat_id
        chat_details == get_chat_details(cs, cur)
    IN IF chat_details = <<>>
       THEN \* chat_details is None: the subscript raises
            [chats |-> cs, threads |-> thr, st |-> st, ui |-> Ui("prompt")]
       ELSE IF NeedsThread(chat_details) /\ ~threadOk
       THEN [chats |-> cs, threads |-> thr, st |-> st,
             ui |-> [Ui("prompt") EXCEPT !.create_thread_calls = 1]]
       ELSE
         LET need == NeedsThread(chat_details)
             thread_id == IF need THEN freshThread ELSE chat_details[1].thread_id
             thr1 == IF need THEN thr @@ (freshThread :> 0) ELSE thr
             cs1 == IF need THEN update_chat(cs, cur, thread_id, NULL, now) ELSE cs
             msgs1 == Plus(st.messages, 1)
             cs2 == IF msgs1 = 1
                    THEN update_chat(cs1, cur, NULL, generate_chat_title(prompt), now)
                    ELSE cs1
             thr2 == [thr1 EXCEPT ![thread_id] = send_message_turns(@, sent)]
             msgs2 == Plus(msgs1, 1)
             cs3 == update_chat(cs2, cur, NULL, NULL, later)
         IN [chats |-> cs3, threads |-> thr2,
             st |-> [st EXCEPT !.messages = msgs2],
             ui |-> [Ui("prompt") EXCEPT
                       !.create_thread_calls = IF need THEN 1 ELSE 0,
                       !.sent_to = thread_id]]

Prompts == {"  hello "}

\* the chat c has a thread
Loads(c) == HasChat(chats, c) /\ Truthy(ChatRow(chats, c).thread_id)

\* A prompt is submitted: main, lines 626-692
SubmitPrompt(prompt, threadOk, sent, listOk, d) ==
    /\ session_user # NULL
    /\ assistant /\ Truthy(assistant_id)
    /\ clock + d <= MaxClock
    /\ (threadOk /\ ~Loads(current_chat_id)) => FreshThread # NULL
    /\ LET r == RunMain(chats, threads, SessionState, assistant, assistant_id,
                        session_user, listOk, clock, FreshChat)
           h == PromptHandler(r.chats, threads, r.st, prompt, threadOk, sent,
                              clock, clock + d, FreshThread)
       IN /\ EndRun([r EXCEPT !.chats = h.chats, !.st = h.st])
          /\ threads' = h.threads
          /\ ui' = h.ui
    /\ clock' = clock + d
    /\ UNCHANGED <<users, deletedChats, call, session_user, assistant,
                   assistant_id, nextAsst, goc>>
    /\ UNCHANGED <<sendvars, fnvars>>

Init ==
    /\ users = [u \in {} |-> [assistant_id |-> NULL]]
    /\ chats = <<>>
    /\ clock = 0
    /\ nextChatId = 1
    /\ deletedChats = {}
    /\ call = NoCall
    /\ IdleRest
    /\ IdleSend
    /\ IdleFn

\* The driver is followed for the sessions of one user; what the store
\* keeps apart between users is followed in SpecDB.
SessionUsers == {"u1"}

\* the remote answers that matter to a run: a listing is made only when a
\* chat with a thread is loaded, a thread is created only when the current
\* chat has none
Restores(cs) == /\ assistant /\ Truthy(assistant_id) /\ ~Truthy(current_chat_id)
                /\ get_user_chats(cs, session_user) # <<>>
Answers(asked) == IF asked THEN BOOLEAN ELSE {TRUE}

Next ==
    \/ Tick
    \/ \E u \in SessionUsers : StartSession(u)
    \/ \E retrieveOk, createOk, listOk \in BOOLEAN :
          EnterApiKey(retrieveOk, createOk, listOk)
    \/ NewChat
    \/ \E c \in ChatIds : \E listOk \in Answers(Loads(c)) : SelectChat(c, listOk)
    \/ \E c \in ChatIds : \E listOk \in Answers(c = current_chat_id) :
          DeleteChat(c, listOk)
    \/ \E prompt \in Prompts, sent \in SendResults, d \in 0..1 :
          \E threadOk \in Answers(~Loads(current_chat_id)) :
            \E listOk \in Answers(Restores(chats)) :
              SubmitPrompt(prompt, threadOk, sent, listOk, d)

Spec == Init /\ [][Next]_vars

\* ------------------------------------------------------------------------
\* send_message: one call, followed from the append of the user turn to the
\* returned reply.  Zuri_POC.py lines 337-384, agent2_poc.py lines 506-600.
\* ------------------------------------------------------------------------
MaxToolCalls == 2

MaxWaitZuri == 30
PollStepZuri == 1
MaxWaitAgent2 == 60
PollStepAgent2 == 2

Variants == {"zuri", "agent2"}
max_wait(v) == IF v = "zuri" THEN MaxWaitZuri ELSE MaxWaitAgent2
\* A mutant of poll_step: both variants count the wait in steps of one
poll_step_unit(v) == IF v = "zuri" THEN PollStepZuri ELSE PollStepZuri

poll_step(v) == IF v = "zuri" THEN PollStepZuri ELSE PollStepAgent2

\* the statuses a run can report; "cancelled" stands for every status the
\* code does not name (cancelling, cancelled, expired, incomplete)
RunStatuses == {"queued", "in_progress", "requires_action", "completed",
                "failed", "cancelled"}

\* the statuses of a run that runs.create has just made
StartStatuses == {"queued", "in_progress"}

\* A mutant of PolledStatuses: every status keeps the loop going
PolledStatuses_all(v) == IF v = "zuri" THEN RunStatuses ELSE RunStatuses

\* the statuses of the while condition
PolledStatuses(v) ==
    IF v = "zuri" THEN {"queued", "in_progress"}
    ELSE {"queued", "in_progress", "requires_action"}

\* A mutant of HandlesTools: both variants resolve tool calls
HandlesTools_both(v) == v = v

\* "if run.status == 'requires_action'" exists in agent2 only
HandlesTools(v) == v = "agent2"

\* the fixed texts of the reply, and the stand-ins for the latest message's
\* text and for the text made from the exception
ReplyLatest == "<latest message text>"
ReplyNoResponse == "I apologize, but I didn't receive a proper response. Could you try asking again?"
ReplyFailed == "I encountered an error processing your request. Please try again."
ReplyTimeout == "Request timed out. Please try again with a shorter message."
ReplyException == "I apologize, but I encountered an error: <e>. Please try again."

\* the value returned: a string in Zuri, a dict with a status in agent2
Returned(v, content, status) ==
    [content |-> content, status |-> IF v = "zuri" THEN NULL ELSE status]
\* A mutant of Raised: the except clause returns nothing
Raised_nothing(v) == Returned(v, NULL, NULL)

\* the except clause of send_message
Raised(v) == Returned(v, ReplyException, "error")

\* the pending calls a requires_action can carry: the function's name and
\* whether json.loads accepts its arguments
ToolCallKinds == {[name |-> "generate_image", args_ok |-> TRUE],
                  [name |-> "generate_image", args_ok |-> FALSE],
                  [name |-> "other", args_ok |-> TRUE]}
ToolCallLists ==
    UNION {[1..n -> ToolCallKinds] : n \in 1..MaxToolCalls}

\* A mutant of tool_loop: the test of the function's name is inverted
RECURSIVE tool_loop_inverted(_, _, _, _)
tool_loop_inverted(calls, imgOk, k, acc) ==
    IF k > Len(calls) THEN acc
    ELSE IF calls[k].name = "generate_image"
    THEN tool_loop_inverted(calls, imgOk, k + 1, acc)
    ELSE tool_loop_inverted(calls, imgOk, k + 1,
           [acc EXCEPT !.images = @ + 1,
                       !.outputs = Append(@,
                          [tool_call_id |-> k,
                           status |-> IF imgOk[k] THEN "success" ELSE "failed"])])

\* The for loop over the pending calls (agent2 lines 539-556) from call k
\* on.  imgOk[k]: generate_image_with_dalle returns a url for call k.  The
\* loop is left by the exception of json.loads when a generate_image call
\* has arguments it cannot parse; calls of another name are skipped.
RECURSIVE tool_loop(_, _, _, _)
tool_loop(calls, imgOk, k, acc) ==
    IF k > Len(calls) THEN acc
    ELSE IF calls[k].name # "generate_image"
    THEN tool_loop(calls, imgOk, k + 1, acc)
    ELSE IF ~calls[k].args_ok THEN [acc EXCEPT !.raised = TRUE]
    ELSE tool_loop(calls, imgOk, k + 1,
           [acc EXCEPT !.images = @ + 1,
                       !.outputs = Append(@,
                          [tool_call_id |-> k,
                           status |-> IF imgOk[k] THEN "success" ELSE "failed"])])

NoOutputs == [outputs |-> <<>>, images |-> 0, raised |-> FALSE]

\* A mutant of KeepsPolling: the budget is compared with <=
KeepsPolling_inclusive(v, status, waited) ==
    status \in PolledStatuses(v) /\ waited <= max_wait(v)

\* the while condition
KeepsPolling(v, status, waited) ==
    status \in PolledStatuses(v) /\ waited < max_wait(v)

ListResults == {"text", "empty", "raise"}

\* A mutant of reply_for: a run that is not completed is answered as failed
reply_for_failed(v, status, listRes) ==
    IF status = "completed" THEN Returned(v, ReplyLatest, "success")
    ELSE Returned(v, ReplyFailed, "error")

\* the branches after the loop; listRes: what messages.list(limit=1) gives
reply_for(v, status, listRes) ==
    IF status = "completed"
    THEN CASE listRes = "text" -> Returned(v, ReplyLatest, "success")
           [] listRes = "empty" -> Returned(v, ReplyNoResponse, "error")
           [] listRes = "raise" -> Raised(v)
    ELSE IF status = "failed" THEN Returned(v, ReplyFailed, "error")
    ELSE Returned(v, ReplyTimeout, "timeout")

\* messages.create and runs.create; st: the status of the created run
SendStart(v, appendOk, runOk, st) ==
    /\ pc = "idle"
    /\ variant' = v
    /\ IF appendOk /\ runOk
       THEN /\ pc' = "polling"
            /\ run_status' = st
            /\ only_queued' = (st = "queued")
            /\ UNCHANGED <<reply, raised_at>>
       ELSE /\ pc' = "done"
            /\ reply' = Raised(v)
            /\ raised_at' = IF appendOk THEN "run_create" ELSE "append"
            /\ UNCHANGED <<run_status, only_queued>>
    /\ UNCHANGED <<wait_time, tool_calls, tool_outputs, retrieves, submits,
                   image_calls, ra_kind, listed>>
    /\ UNCHANGED <<dbvars, sessvars, remotevars, fnvars, earlier_active>>

\* One round of the loop up to the test of requires_action: sleep, add the
\* step to wait_time, retrieve.  ok: retrieve returns; st: the status it
\* reports; calls: the pending calls it reports with requires_action.
Poll(ok, st, calls) ==
    /\ pc = "polling"
    /\ KeepsPolling(variant, run_status, wait_time)
    /\ wait_time' = wait_time + poll_step(variant)
    /\ retrieves' = retrieves + 1
    /\ IF ~ok
       THEN /\ pc' = "done"
            /\ reply' = Raised(variant)
            /\ raised_at' = "retrieve"
            /\ UNCHANGED <<run_status, only_queued, tool_calls, tool_outputs,
                           ra_kind>>
       ELSE /\ run_status' = st
            /\ only_queued' = (only_queued /\ st = "queued")
            /\ UNCHANGED <<reply, raised_at>>
            /\ IF st = "requires_action" /\ HandlesTools(variant)
               THEN /\ pc' = "awaiting_tool_output"
                    /\ tool_calls' = calls
                    /\ tool_outputs' = <<>>
                    /\ ra_kind' = IF /\ ra_kind = "none"
                                     /\ Len(calls) = 1
                                     /\ calls[1].name = "generate_image"
                                  THEN "one_image" ELSE "other"
               ELSE /\ pc' = "polling"
                    /\ UNCHANGED <<tool_calls, tool_outputs, ra_kind>>
    /\ UNCHANGED <<variant, submits, image_calls, listed>>
    /\ UNCHANGED <<dbvars, sessvars, remotevars, fnvars, earlier_active>>

\* The rest of the round when the run requires action (agent2 lines
\* 535-563): the loop over the pending calls and the submission of the
\* batch.  submitOk: submit_tool_outputs returns; st: the status of the run
\* it returns.
ResolveTools(imgOk, submitOk, st) ==
    /\ pc = "awaiting_tool_output"
    /\ LET r == tool_loop(tool_calls, imgOk, 1, NoOutputs)
       IN /\ image_calls' = Plus(image_calls, r.images)
          /\ IF r.raised
             THEN /\ pc' = "done"
                  /\ reply' = Raised(variant)
                  /\ raised_at' = "parse"
                  /\ UNCHANGED <<run_status, submits, tool_outputs>>
             ELSE /\ submits' = submits + 1
                  /\ tool_outputs' = r.outputs
                  /\ IF submitOk
                     THEN /\ pc' = "polling"
                          /\ run_status' = st
                          /\ UNCHANGED <<reply, raised_at>>
                     ELSE /\ pc' = "done"
                          /\ reply' = Raised(variant)
                          /\ raised_at' = "submit"
                          /\ UNCHANGED run_status
    /\ tool_calls' = <<>>
    /\ only_queued' = FALSE
    /\ UNCHANGED <<variant, wait_time, retrieves, ra_kind, listed>>
    /\ UNCHANGED <<dbvars, sessvars, remotevars, fnvars, earlier_active>>

\* The loop is left: the branches on run.status and the return
Finish(listRes) ==
    /\ pc = "polling"
    /\ ~KeepsPolling(variant, run_status, wait_time)
    /\ pc' = "done"
    /\ listed' = IF run_status = "completed" THEN listRes ELSE listed
    /\ reply' = reply_for(variant, run_status, listRes)
    /\ raised_at' = IF run_status = "completed" /\ listRes = "raise"
                    THEN "list" ELSE raised_at
    /\ UNCHANGED <<variant, wait_time, run_status, tool_calls, tool_outputs,
                   retrieves, submits, image_calls, ra_kind, only_queued>>
    /\ UNCHANGED <<dbvars, sessvars, remotevars, fnvars, earlier_active>>

\* what the image endpoint can answer to the pending calls: it is asked
\* for the generate_image calls only
ImageAnswers(calls) ==
    {f \in [1..Len(calls) -> BOOLEAN] :
        \A k \in 1..Len(calls) : calls[k].name # "generate_image" => f[k]}

NextSend ==
    \/ \E v \in Variants, appendOk, runOk \in BOOLEAN, st \in StartStatuses :
          SendStart(v, appendOk, runOk, st)
    \/ \E ok \in BOOLEAN, st \in RunStatuses :
          \E calls \in IF ok /\ st = "requires_action" /\ HandlesTools(variant)
                       THEN ToolCallLists ELSE {<<>>} :
            Poll(ok, st, calls)
    \/ \E imgOk \in ImageAnswers(tool_calls), submitOk \in BOOLEAN,
          st \in RunStatuses :
          ResolveTools(imgOk, submitOk, st)
    \/ \E listRes \in IF run_status = "completed" THEN ListResults ELSE {"text"} :
          Finish(listRes)

SpecSend == Init /\ [][NextSend]_vars

\* ------------------------------------------------------------------------
\* Properties of the UI driver and of the persona client
\* ------------------------------------------------------------------------
\* C1: once a chat row's thread_id is set, no operation of the session
\* gives the row another thread_id for as long as the row exists.
C1_ThreadIdStable ==
    [][\A i \in 1..Len(chats), j \in 1..Len(chats') :
          (chats[i].id = chats'[j].id /\ chats[i].thread_id # NULL)
          => chats'[j].thread_id = chats[i].thread_id]_vars

\* a prompt was just sent to the thread the current chat already had, while
\* the remote could have given out another thread
C1_Witness ==
    /\ ui.handler = "prompt" /\ ui.create_thread_calls = 0
    /\ ui.sent_to = "th1"
    /\ HasChat(chats, current_chat_id)
    /\ ChatRow(chats, current_chat_id).thread_id = "th1"
    /\ FreshThread = "th2"

\* C6: when the cached persona id fails the remote retrieve,
\* get_or_create_assistant makes exactly one creation call; if that call
\* succeeds the users row holds the new id and the new id is returned, and
\* if it raises the row keeps the stale id and None is returned.
RetrieveFailed == goc.retrieve_calls = 1 /\ goc.ret # goc.cached

C6_ReplacesPersona ==
    RetrieveFailed =>
        /\ goc.create_calls = 1
        /\ goc.ret = goc.created
        /\ assistant_id = goc.ret
        /\ (goc.created # NULL =>
              /\ goc.created # goc.cached
              /\ users[session_user].assistant_id = goc.created)
        /\ (goc.created = NULL =>
              users[session_user].assistant_id = goc.cached)

\* the stale id a1 was replaced by the new persona a2
C6_Witness ==
    /\ RetrieveFailed
    /\ goc.cached = "a1" /\ goc.created = "a2"
    /\ users[session_user].assistant_id = "a2"

\* C6 as stated: a failed retrieve of the cached id always ends with the
\* users row holding a new persona's id, which is returned.
C6_AsStated ==
    RetrieveFailed =>
        /\ goc.create_calls = 1
        /\ goc.created # NULL
        /\ users[session_user].assistant_id = goc.created
        /\ goc.ret = goc.created

\* ------------------------------------------------------------------------
\* Properties of the persistence shim
\* ------------------------------------------------------------------------
\* the step is a call of update_chat / delete_chat (Tick leaves call alone)
UpdateStep == call'.op = "update_chat" /\ clock' = clock
DeleteStep == call'.op = "delete_chat" /\ clock' = clock

SameRowIds == /\ Len(chats') = Len(chats)
              /\ \A i \in 1..Len(chats) : chats'[i].id = chats[i].id

OtherRowsUnchanged(c) ==
    /\ SameRowIds
    /\ \A i \in 1..Len(chats) : chats[i].id # c => chats'[i] = chats[i]

\* C2: update_chat with only a title leaves the chat's thread_id unchanged,
\* update_chat with only a thread_id leaves its title unchanged, and either
\* way every other chat row and every users row is unchanged.
C2_UpdateChatFrame ==
    [][UpdateStep =>
        /\ users' = users
        /\ OtherRowsUnchanged(call'.chat_id)
        /\ (call'.thread_id = NULL =>
               \A i \in 1..Len(chats) : chats'[i].thread_id = chats[i].thread_id)
        /\ (call'.title = NULL =>
               \A i \in 1..Len(chats) : chats'[i].title = chats[i].title)]_vars

\* a title-only update has just changed the title of a chat that has a thread
C2_Witness ==
    /\ call.op = "update_chat" /\ call.thread_id = NULL /\ Truthy(call.title)
    /\ HasChat(chats, call.chat_id)
    /\ ChatRow(chats, call.chat_id).title = call.title
    /\ ChatRow(chats, call.chat_id).thread_id = "th1"
    /\ Len(chats) = 2

\* C3: every call of update_chat on an existing chat sets the chat's
\* updated_at to the current time, whatever arguments it is given.
C3_AlwaysBumps ==
    [][UpdateStep /\ HasChat(chats, call'.chat_id) =>
        ChatRow(chats', call'.chat_id).updated_at = clock]_vars

OwnedIds(u) == {chats[i].id : i \in {j \in 1..Len(chats) : chats[j].user_id = u}}
PosIn(l, c) == CHOOSE i \in 1..Len(l) : l[i].id = c

ListedRight(u) ==
    LET l == get_user_chats(chats, u)
    IN /\ IdsOfList(l) = OwnedIds(u)
       /\ Len(l) = Cardinality(OwnedIds(u))
       /\ \A i \in 1..Len(l) : l[i] = ChatDict(ChatRow(chats, l[i].id))
       /\ \A i, j \in 1..Len(l) : i < j => l[i].updated_at >= l[j].updated_at

C5_DeleteChat ==
    /\ [](\A c \in deletedChats :
            /\ get_chat_details(chats, c) = <<>>
            /\ \A u \in UserIds : c \notin IdsOfList(get_user_chats(chats, u)))
    /\ [][DeleteStep =>
            /\ users' = users
            /\ Len(chats') = Len(chats) - 1
            /\ \A i \in 1..Len(chats) :
                   chats[i].id # call'.chat_id =>
                     \E j \in 1..Len(chats') : chats'[j] = chats[i]]_vars

\* a chat was just deleted, another chat and a cached persona id remain
C5_Witness ==
    /\ call.op = "delete_chat" /\ call.chat_id \in deletedChats
    /\ Len(chats) = 1
    /\ chats[1].thread_id = "th1"
    /\ users[chats[1].user_id].assistant_id = "a1"

\* ------------------------------------------------------------------------
\* Properties of send_message
\* ------------------------------------------------------------------------
\* C7: in agent2, a turn whose retrieves reported requires_action once, with
\* one pending generate_image call, and whose run then completed, made
\* exactly one image-generation call and exactly one tool-output submission
\* and returned the latest message's text; once completed is observed no
\* image is generated and nothing is submitted.
C7_OneImageRound ==
    /\ [](( /\ variant = "agent2" /\ pc = "done"
            /\ ra_kind = "one_image"
            /\ run_status = "completed" /\ listed = "text")
          => /\ image_calls = 1
             /\ submits = 1
             /\ reply = [content |-> ReplyLatest, status |-> "success"])
    /\ [][run_status = "completed"
            => image_calls' = image_calls /\ submits' = submits]_vars

\* such a turn has ended, the completion having been reported by a retrieve
\* after the round of tool calls
C7_Witness ==
    /\ variant = "agent2" /\ pc = "done"
    /\ ra_kind = "one_image"
    /\ run_status = "completed" /\ listed = "text"
    /\ retrieves >= 2
    /\ image_calls = 1 /\ submits = 1

\* C8: a turn in which every status reported was queued and no call raised
\* ends with the timeout text after the whole budget (30 in Zuri, 60 in
\* agent2) was waited, and no retrieve is made once the budget is reached.
C8_QueuedTimesOut ==
    /\ []((pc = "done" /\ only_queued /\ reply # Raised(variant))
          => /\ reply.content =
                  "Request timed out. Please try again with a shorter message."
             /\ wait_time = IF variant = "zuri" THEN 30 ELSE 60)
    /\ [][wait_time >= (IF variant = "zuri" THEN 30 ELSE 60)
            => retrieves' = retrieves]_vars

\* an agent2 turn that saw nothing but queued has ended
C8_Witness ==
    /\ variant = "agent2" /\ pc = "done" /\ only_queued
    /\ reply.content = ReplyTimeout
    /\ wait_time = 60

\* the branch of the reply is one of the three named outcomes
ThreeOutcomes ==
    \/ run_status = "completed" /\ reply.content = ReplyLatest
    \/ run_status = "failed" /\ reply.content = ReplyFailed
    \/ /\ run_status \in PolledStatuses(variant)
       /\ wait_time >= max_wait(variant)
       /\ reply.content = ReplyTimeout

ZuriHasNoTools ==
    variant = "zuri" =>
       pc # "awaiting_tool_output" /\ submits = 0 /\ image_calls = 0

\* C10 as stated: tool calls are resolved in agent2 only, and the
\* resolution of tool calls always goes back to the poll loop.
C10_AsStated ==
    /\ []ZuriHasNoTools
    /\ [][pc = "awaiting_tool_output" => pc' = "polling"]_vars

\* C10: tool calls are resolved in agent2 only; a submission that returns
\* goes back to the poll loop, and the turn ends from the resolution of
\* tool calls only with the reply made from an exception (of json.loads or
\* of submit_tool_outputs), the run still being requires_action.
C10_ToolRound ==
    /\ []ZuriHasNoTools
    /\ [][pc = "awaiting_tool_output" =>
            \/ pc' = "polling" /\ submits' = submits + 1
            \/ /\ pc' = "done"
               /\ reply' = Raised(variant)
               /\ run_status' = "requires_action"]_vars

\* an agent2 turn ended in the resolution of its only pending call, before
\* any image was generated or anything submitted
C10_Witness ==
    /\ variant = "agent2" /\ pc = "done"
    /\ ra_kind = "one_image"
    /\ image_calls = 0 /\ submits = 0
    /\ run_status = "requires_action"
    /\ reply = Raised("agent2")

\* the turn is over for the loop: the run was seen completed or failed, or
\* the loop condition finds the budget used up, or send_message returned
TurnOver ==
    \/ run_status \in {"completed", "failed"}
    \/ pc = "polling" /\ wait_time >= max_wait(variant)
    \/ pc = "done"

\* C11: once the run was seen completed or failed, or the turn has timed
\* out, the turn makes no further retrieve, submission or image call, and
\* creates no run (runs are created by the step that leaves "idle" only).
C11_TerminalAbsorbing ==
    [][TurnOver =>
         /\ retrieves' = retrieves
         /\ submits' = submits
         /\ image_calls' = image_calls
         /\ pc # "idle"
         /\ pc' \in {"polling", "done"}]_vars

\* an agent2 turn timed out right after a round of tool calls in its last
\* round, and has returned
C11_Witness ==
    /\ variant = "agent2" /\ pc = "done"
    /\ wait_time = max_wait("agent2")
    /\ submits >= 1 /\ image_calls >= 1
    /\ run_status = "requires_action"
    /\ reply.content = ReplyTimeout

ReplyTexts == {ReplyLatest, ReplyNoResponse, ReplyFailed, ReplyTimeout,
               ReplyException}

C13_OnlyDeleteRemoves ==
    [][/\ DOMAIN users \subseteq DOMAIN users'
       /\ \A c \in IdsOfList(chats) \ IdsOfList(chats') :
             /\ ui'.handler = "delete_chat"
             /\ deletedChats' = deletedChats \cup {c}]_vars

\* a chat was just deleted in a session whose persona had been replaced;
\* the user's other chat and the users row are still there
C13_Witness ==
    /\ ui.handler = "delete_chat" /\ deletedChats # {}
    /\ Len(chats) = 1
    /\ session_user \in DOMAIN users
    /\ users[session_user].assistant_id = "a2"
    /\ Truthy(chats[1].thread_id)

\* ------------------------------------------------------------------------
\* get_or_create_assistant, statement by statement, in two sessions opened
\* for the same user id (Zuri_POC.py lines 242-298).  The store is shared;
\* every shim call is one transaction of its own.
\* ------------------------------------------------------------------------
Sessions == {"s1", "s2"}
SharedUser == "u1"

\* a session about to call get_or_create_assistant
GocStart == [pc |-> "read", cached |-> NULL, created |-> NULL,
             retrieve_failed |-> FALSE, ret |-> NULL]

\* what get_or_create_assistant never touches
personaframe == <<chats, clock, nextChatId, deletedChats, call, sessvars,
                  threads, goc, ui, sendvars, title_input, new_title,
                  remote_thread, formatted_messages>>

\* assistant_id = db.get_user_assistant(user_id); if assistant_id:
GocRead(s) ==
    /\ proc[s].pc = "read"
    /\ LET cached == get_user_assistant(users, SharedUser)
       IN proc' = [proc EXCEPT ![s].cached = cached,
                               ![s].pc = IF Truthy(cached) THEN "retrieve"
                                         ELSE "create"]
    /\ UNCHANGED <<users, nextAsst, personaframe>>

\* self.client.beta.assistants.retrieve(assistant_id) in its try
GocRetrieve(s, retrieveOk) ==
    /\ proc[s].pc = "retrieve"
    /\ proc' = IF retrieveOk
               THEN [proc EXCEPT ![s].pc = "done", ![s].ret = proc[s].cached]
               ELSE [proc EXCEPT ![s].pc = "create",
                                 ![s].retrieve_failed = TRUE]
    /\ UNCHANGED <<users, nextAsst, personaframe>>

\* self.client.beta.assistants.create(...) in its try
GocCreate(s, createOk) ==
    /\ proc[s].pc = "create"
    /\ createOk => FreshAsst # NULL
    /\ proc' = IF createOk
               THEN [proc EXCEPT ![s].pc = "write", ![s].created = FreshAsst]
               ELSE [proc EXCEPT ![s].pc = "done", ![s].ret = NULL]
    /\ nextAsst' = IF createOk THEN nextAsst + 1 ELSE nextAsst
    /\ UNCHANGED <<users, personaframe>>

\* db.update_user_assistant(user_id, assistant.id); return assistant.id
GocWrite(s) ==
    /\ proc[s].pc = "write"
    /\ users' = update_user_assistant(users, SharedUser, proc[s].created)
    /\ proc' = [proc EXCEPT ![s].pc = "done", ![s].ret = proc[s].created]
    /\ UNCHANGED <<nextAsst, personaframe>>

\* the page is loaded again under the same user_id: a fresh session state,
\* so the API-key handler calls get_or_create_assistant once more (created
\* and retrieve_failed record what the session's earlier calls did)
GocReload(s) ==
    /\ proc[s].pc = "done"
    /\ proc' = [proc EXCEPT ![s].pc = "read", ![s].cached = NULL,
                            ![s].ret = NULL]
    /\ UNCHANGED <<users, nextAsst, personaframe>>

\* both sessions have run initialize_session_state; the user is new, or has
\* the persona a1 cached from an earlier session
InitPersona ==
    /\ \E cached \in {NULL, AsstPool[1]} :
          /\ users = create_user([u \in {} |-> [assistant_id |-> NULL]],
                                 SharedUser, cached)
          /\ nextAsst = IF cached = NULL THEN 1 ELSE 2
    /\ proc = [s \in Sessions |-> GocStart]
    /\ chats = <<>> /\ clock = 0 /\ nextChatId = 1 /\ deletedChats = {}
    /\ call = NoCall
    /\ session_user = NULL /\ current_chat_id = NULL /\ messages = 0
    /\ assistant = FALSE /\ assistant_id = NULL
    /\ threads = [t \in {} |-> 0] /\ goc = NoGoc /\ ui = NoUi
    /\ IdleSend
    /\ title_input = NULL /\ new_title = NULL
    /\ remote_thread = NULL /\ formatted_messages = NULL

NextPersona ==
    \/ \E s \in Sessions : GocRead(s)
    \/ \E s \in Sessions, retrieveOk \in BOOLEAN : GocRetrieve(s, retrieveOk)
    \/ \E s \in Sessions, createOk \in BOOLEAN : GocCreate(s, createOk)
    \/ \E s \in Sessions : GocWrite(s)
    \/ \E s \in Sessions : GocReload(s)

SpecPersona == InitPersona /\ [][NextPersona]_vars

\* the personas created remotely for the user by the two sessions
PersonasCreated == Cardinality({s \in Sessions : proc[s].created # NULL})

\* C14: as long as no retrieve of a cached persona has failed, at most one
\* persona has been created for the user (creation calls that raised
\* created none), however the steps of the two sessions interleave.
C14_OnePersonaPerUser ==
    (\A s \in Sessions : ~proc[s].retrieve_failed) => PersonasCreated <= 1

\* ------------------------------------------------------------------------
\* Successive prompts of one chat: send_message called again and again on
\* the same remote thread
\* ------------------------------------------------------------------------
\* the remote statuses after which a run does no more work
TerminalStatuses == {"completed", "failed", "cancelled"}

\* send_message has returned with the run it created not over
LeftRunning == run_status # NULL /\ run_status \notin TerminalStatuses

\* The prompt handler calls send_message for the next prompt of the chat,
\* with the thread_id of the chat row: nothing is done about the run of the
\* turn before (no cancel, no wait, no look at its status).  finished: the
\* runs left on the thread have ended on the remote in the meantime.
NextTurn(finished) ==
    /\ pc = "done"
    /\ pc' = "idle"
    /\ earlier_active' = IF finished THEN FALSE
                          ELSE (earlier_active \/ LeftRunning)
    /\ wait_time' = 0 /\ run_status' = NULL
    /\ tool_calls' = <<>> /\ tool_outputs' = <<>>
    /\ retrieves' = 0 /\ submits' = 0 /\ image_calls' = 0
    /\ ra_kind' = "none" /\ only_queued' = TRUE /\ listed' = NULL
    /\ reply' = NULL /\ raised_at' = NULL
    /\ UNCHANGED <<variant, dbvars, sessvars, remotevars, fnvars>>

\* the turns of a chat served by Zuri_POC
NextTurns ==
    \/ \E appendOk, runOk \in BOOLEAN, st \in StartStatuses :
          SendStart("zuri", appendOk, runOk, st)
    \/ \E ok \in BOOLEAN, st \in RunStatuses : Poll(ok, st, <<>>)
    \/ \E listRes \in IF run_status = "completed" THEN ListResults ELSE {"text"} :
          Finish(listRes)
    \/ \E finished \in BOOLEAN : NextTurn(finished)

SpecTurns == Init /\ [][NextTurns]_vars

\* C15: a run exists on the thread for the current turn only if no run of an
\* earlier turn is still in a non-terminal status, so two runs are never in
\* flight on the thread, also after a turn that returned the timeout text.
C15_NoConcurrentRuns == ~(earlier_active /\ run_status # NULL)

\* ------------------------------------------------------------------------
\* get_thread_messages followed on its own
\* ------------------------------------------------------------------------
MaxTurns == 21          \* turns held by the remote thread
PageLimit == 20         \* turns in the page messages.list gives when no
                        \* limit is passed

\* the store, the session and send_message are out of the picture
IdleProgram ==
    /\ users = [u \in {} |-> [assistant_id |-> NULL]]
    /\ chats = <<>> /\ clock = 0 /\ nextChatId = 1 /\ deletedChats = {}
    /\ call = NoCall
    /\ IdleRest
    /\ IdleSend

\* content items of a remote turn: text blocks, image_file blocks and
\* blocks with neither attribute
TextItem(t) == [type |-> "text", value |-> t]
ImageFileItem(f) == [type |-> "image_file", value |-> f]
ImageUrlItem(u) == [type |-> "image_url", value |-> u]

\* the contents a remote turn is given here
TurnContents ==
    << <<TextItem("Hel"), TextItem("lo")>>,
       <<TextItem("a"), ImageFileItem("f1"), TextItem("b")>>,
       <<>>,
       <<ImageFileItem("f2"), ImageUrlItem("u1")>> >>

\* the remote thread of n turns, oldest first; the roles alternate and the
\* contents go round TurnContents from position shift
RemoteTurns(n, shift) ==
    [i \in 1..n |->
        [role |-> IF i % 2 = 1 THEN "user" ELSE "assistant",
         content |-> TurnContents[((i + shift) % Len(TurnContents)) + 1],
         created_at |-> i]]

\* messages.list(thread_id=..., order="asc").data: no limit is passed and
\* no further page is asked for, so it is the first page of the thread
messages_data(turns) ==
    IF Len(turns) <= PageLimit THEN turns ELSE SubSeq(turns, 1, PageLimit)

\* "for content_item in msg.content": hasattr text, elif hasattr image_file
RECURSIVE content_loop(_, _, _)
content_loop(items, k, acc) ==
    IF k > Len(items) THEN acc
    ELSE IF items[k].type = "text"
    THEN content_loop(items, k + 1,
                      [acc EXCEPT !.content = @ \o items[k].value])
    ELSE IF items[k].type = "image_file"
    THEN content_loop(items, k + 1,
                      [acc EXCEPT !.images = Append(@, items[k].value)])
    ELSE content_loop(items, k + 1, acc)

\* the dict appended for one turn; Zuri_POC looks at text blocks only and
\* has no 'images' key, agent2_poc sets it when the list is not empty
message_data(v, msg) ==
    LET r == content_loop(msg.content, 1, [content |-> "", images |-> <<>>])
        base == [role |-> msg.role, content |-> r.content,
                 created_at |-> msg.created_at]
    IN IF v = "agent2" /\ r.images # <<>>
       THEN [role |-> base.role, content |-> base.content,
             created_at |-> base.created_at, images |-> r.images]
       ELSE base

\* get_thread_messages with the remote thread given by its turns
thread_messages(v, turns, listOk) ==
    IF ~listOk THEN <<>>
    ELSE LET data == messages_data(turns)
         IN [i \in 1..Len(data) |-> message_data(v, data[i])]

MessageInputs ==
    {[variant |-> v, turns |-> RemoteTurns(n, shift), list_ok |-> ok] :
        v \in Variants, n \in 0..MaxTurns,
        shift \in 0..(Len(TurnContents) - 1), ok \in BOOLEAN}

InitMessages ==
    /\ IdleProgram
    /\ remote_thread \in MessageInputs
    /\ formatted_messages = <<>>
    /\ proc = [pc |-> "call"]
    /\ title_input = NULL /\ new_title = NULL

GetThreadMessages ==
    /\ proc.pc = "call"
    /\ formatted_messages' = thread_messages(remote_thread.variant,
                                             remote_thread.turns,
                                             remote_thread.list_ok)
    /\ proc' = [pc |-> "returned"]
    /\ UNCHANGED <<dbvars, sessvars, remotevars, sendvars, title_input,
                   new_title, remote_thread>>

NextMessages == GetThreadMessages

SpecMessages == InitMessages /\ [][NextMessages]_vars

\* the text blocks of a turn, in order
TextBlocks(items) == SelectSeq(items, LAMBDA it : it.type = "text")
ImageFileBlocks(items) == SelectSeq(items, LAMBDA it : it.type = "image_file")

RECURSIVE JoinValues(_)
JoinValues(items) ==
    IF items = <<>> THEN ""
    ELSE Head(items).value \o JoinValues(Tail(items))

\* entry i of the result renders turn i of the remote thread
RendersTurn(i) ==
    LET e == formatted_messages[i]
        t == remote_thread.turns[i]
    IN /\ e.role = t.role
       /\ e.created_at = t.created_at
       /\ e.content = JoinValues(TextBlocks(t.content))
       /\ IF remote_thread.variant = "agent2" /\ ImageFileBlocks(t.content) # <<>>
          THEN /\ "images" \in DOMAIN e
               /\ Len(e.images) = Len(ImageFileBlocks(t.content))
               /\ \A k \in 1..Len(e.images) :
                     e.images[k] = ImageFileBlocks(t.content)[k].value
          ELSE "images" \notin DOMAIN e

\* C16: get_thread_messages returns one entry per remote turn, oldest
\* first, each with the turn's text blocks concatenated in order (agent2_poc
\* keeps the image_file blocks under 'images'), and the empty list when the
\* listing raises.
C16_OneEntryPerTurn ==
    proc.pc = "returned" =>
        IF remote_thread.list_ok
        THEN /\ Len(formatted_messages) = Len(remote_thread.turns)
             /\ \A i \in 1..Len(formatted_messages) : RendersTurn(i)
        ELSE formatted_messages = <<>>

\* ------------------------------------------------------------------------
\* generate_chat_title followed on its own
\* ------------------------------------------------------------------------
MaxTitleLen == 33       \* characters of a first message between its margins

\* the text first messages are cut from, and the margins put around them
MessageText == "Plan my week: 3 calls, 2 demos, one review"
Margins == {"", " ", "\t ", " \n"}

FirstMessages ==
    {left \o SubSeq(MessageText, 1, n) \o right :
        left \in Margins, right \in Margins, n \in 0..MaxTitleLen}

InitTitle ==
    /\ IdleProgram
    /\ title_input \in FirstMessages
    /\ new_title = NULL
    /\ proc = [pc |-> "call"]
    /\ remote_thread = NULL /\ formatted_messages = NULL

GenerateChatTitle ==
    /\ proc.pc = "call"
    /\ new_title' = generate_chat_title(title_input)
    /\ proc' = [pc |-> "returned"]
    /\ UNCHANGED <<dbvars, sessvars, remotevars, sendvars, title_input,
                   remote_thread, formatted_messages>>

NextTitle == GenerateChatTitle

SpecTitle == InitTitle /\ [][NextTitle]_vars

\* the positions of s that hold no whitespace
Inked(s) == {i \in 1..Len(s) : SubSeq(s, i, i) \notin {" ", "\t", "\n"}}

\* s without its leading and trailing whitespace
Stripped(s) ==
    IF Inked(s) = {} THEN ""
    ELSE LET lo == CHOOSE i \in Inked(s) : \A j \in Inked(s) : i <= j
             hi == CHOOSE i \in Inked(s) : \A j \in Inked(s) : i >= j
         IN SubSeq(s, lo, hi)

PromptCrash(listOk) ==
    /\ session_user # NULL
    /\ assistant /\ Truthy(assistant_id)
    /\ FreshThread # NULL
    /\ LET r == RunMain(chats, threads, SessionState, assistant, assistant_id,
                        session_user, listOk, clock, FreshChat)
           cur == r.st.current_chat_id
           chat_details == get_chat_details(r.chats, cur)
       IN /\ chat_details # <<>>
          /\ NeedsThread(chat_details)
          /\ r.created => HasFreshChat
          /\ chats' = update_chat(r.chats, cur, FreshThread, NULL, clock)
          /\ nextChatId' = IF r.created THEN nextChatId + 1 ELSE nextChatId
    /\ threads' = threads @@ (FreshThread :> 0)
    /\ session_user' = NULL /\ current_chat_id' = NULL /\ messages' = 0
    /\ assistant' = FALSE /\ assistant_id' = NULL
    /\ ui' = [Ui("prompt_crash") EXCEPT !.create_thread_calls = 1]
    /\ UNCHANGED <<users, clock, deletedChats, call, nextAsst, goc>>
    /\ proc' = <<"title_write">>
    /\ UNCHANGED <<sendvars, title_input, new_title, remote_thread,
                   formatted_messages>>

\* the interactions of main within one second of the store's clock, and
\* the stop
NextCrash ==
    \/ \E u \in SessionUsers : StartSession(u)
    \/ \E retrieveOk, createOk, listOk \in BOOLEAN :
          EnterApiKey(retrieveOk, createOk, listOk)
    \/ NewChat
    \/ \E c \in ChatIds : \E listOk \in Answers(Loads(c)) : SelectChat(c, listOk)
    \/ \E c \in ChatIds : \E listOk \in Answers(c = current_chat_id) :
          DeleteChat(c, listOk)
    \/ \E prompt \in Prompts, sent \in SendResults :
          \E threadOk \in Answers(~Loads(current_chat_id)) :
            \E listOk \in Answers(Restores(chats)) :
              SubmitPrompt(prompt, threadOk, sent, listOk, 0)
    \/ \E listOk \in Answers(Restores(chats)) : PromptCrash(listOk)

SpecCrash == Init /\ [][NextCrash]_vars

\* the titles the prompt handler writes
PromptTitles == {generate_chat_title(p) : p \in Prompts}

\* the row of chat c has a thread_id but no title made from a prompt: the
\* state a stop between the two writes leaves
HalfWritten(c) ==
    /\ HasChat(chats, c)
    /\ Truthy(ChatRow(chats, c).thread_id)
    /\ ChatRow(chats, c).title \notin PromptTitles

\* C18: a prompt handled in a chat whose row was left with a thread_id and
\* without a prompt title is sent to the stored thread, creates no thread,
\* leaves the thread_id as it is and sets the title from the prompt.
C18_CrashRecoverable ==
    [][(/\ ui'.handler = "prompt"
        /\ ui'.sent_to # NULL
        /\ HalfWritten(current_chat_id'))
       => /\ ui'.create_thread_calls = 0
          /\ ui'.sent_to = ChatRow(chats, current_chat_id').thread_id
          /\ DOMAIN threads' = DOMAIN threads
          /\ HasChat(chats', current_chat_id')
          /\ ChatRow(chats', current_chat_id').thread_id
               = ChatRow(chats, current_chat_id').thread_id
          /\ ChatRow(chats', current_chat_id').title \in PromptTitles]_vars

\* a session stopped after the thread-ID write of the first chat's first
\* prompt, and a later session has sent a prompt in that chat: one thread
\* exists, the row still holds it and the title is the prompt's
C18_Witness ==
    /\ proc = <<"title_write">>
    /\ ui.handler = "prompt" /\ ui.create_thread_calls = 0
    /\ ui.sent_to = "th1"
    /\ DOMAIN threads = {"th1"}
    /\ nextChatId = 2
    /\ Len(chats) = 1
    /\ chats[1].thread_id = "th1"
    /\ chats[1].title \in PromptTitles
    /\ current_chat_id = chats[1].id
    /\ threads["th1"] = 1
    /\ messages = 2

\* C19: after a prompt has been handled in a chat and send_message has
\* returned, the chat's updated_at is at least that of every other chat of
\* the user, and in get_user_chats only chats with that same updated_at
\* (written within the same second) can stand before it.
C19_PromptBumpsChat ==
    (/\ ui.handler = "prompt" /\ ui.sent_to # NULL
     /\ HasChat(chats, current_chat_id))
    => LET mine == ChatRow(chats, current_chat_id).updated_at
           listed_chats == get_user_chats(chats, session_user)
       IN /\ \A i \in 1..Len(chats) :
                chats[i].user_id = session_user => mine >= chats[i].updated_at
          /\ \A i, j \in 1..Len(listed_chats) :
                (i < j /\ listed_chats[j].id = current_chat_id)
                => listed_chats[i].updated_at = mine

\* C20: send_message returns the timeout text only if the counted wait has
\* reached the budget of its variant (30 in Zuri_POC, 60 in agent2_poc).
C20_TimeoutMeansBudget ==
    (pc = "done" /\ reply.content = ReplyTimeout)
    => wait_time >= max_wait(variant)

\* ------------------------------------------------------------------------
\* send_message with its steps taken for as long as one is possible
\* ------------------------------------------------------------------------
\* what a requires_action carries here: one pending call of any kind (the
\* number of rounds does not depend on the size of the batch)
OneCallLists == {<<k>> : k \in ToolCallKinds}

NextSendRounds ==
    \/ \E v \in Variants, appendOk, runOk \in BOOLEAN, st \in StartStatuses :
          SendStart(v, appendOk, runOk, st)
    \/ \E ok \in BOOLEAN, st \in RunStatuses :
          \E calls \in IF ok /\ st = "requires_action" /\ HandlesTools(variant)
                       THEN OneCallLists ELSE {<<>>} :
            Poll(ok, st, calls)
    \/ \E imgOk \in ImageAnswers(tool_calls), submitOk \in BOOLEAN,
          st \in RunStatuses :
          ResolveTools(imgOk, submitOk, st)
    \/ \E listRes \in IF run_status = "completed" THEN ListResults ELSE {"text"} :
          Finish(listRes)

\* send_message is a sequential function: once called it goes on to its next
\* statement, and every remote call it makes returns or raises
SpecSendFair == Init /\ [][NextSendRounds]_vars /\ WF_vars(NextSendRounds)

\* C21: a call of send_message returns whatever statuses the remote
\* reports, and up to then it has made at most 30 status retrievals in
\* either variant and at most as many tool-output submissions as retrievals.
C21_BoundedTurn ==
    /\ [](retrieves <= 30 /\ submits <= retrieves)
    /\ (pc # "idle" ~> pc = "done")

\* agent2_poc has used its whole budget in rounds that each required
\* action: 30 retrievals, 30 submissions, and the call has returned
C21_Witness ==
    /\ variant = "agent2" /\ pc = "done"
    /\ retrieves = 30 /\ submits = 30
    /\ wait_time = max_wait("agent2")

\* ------------------------------------------------------------------------
\* The batch submitted for an observed requires_action
\* ------------------------------------------------------------------------
\* the positions of the pending calls named generate_image, in pending order
ImagePositions(calls) ==
    SelectSeq([k \in 1..Len(calls) |-> k],
              LAMBDA k : calls[k].name = "generate_image")

\* one output per pending generate_image call, carrying the call's id and
\* 'success' or 'failed' as the image endpoint answered
BatchFor(calls, imgOk) ==
    LET at == ImagePositions(calls)
    IN [i \in 1..Len(at) |->
          [tool_call_id |-> at[i],
           status |-> IF imgOk[at[i]] THEN "success" ELSE "failed"]]

\* the step after requires_action was observed submits exactly one batch,
\* the one made of the pending generate_image calls
SubmitsBatch ==
    /\ submits' = submits + 1
    /\ \E imgOk \in ImageAnswers(tool_calls) :
          tool_outputs' = BatchFor(tool_calls, imgOk)

\* a pending generate_image call has arguments json.loads rejects
BadArguments ==
    \E k \in 1..Len(tool_calls) :
        tool_calls[k].name = "generate_image" /\ ~tool_calls[k].args_ok

\* C22 as stated: each time requires_action is observed in agent2_poc,
\* exactly one submission is made, with one output per pending
\* generate_image call in pending order and none for other calls.
C22_AsStated == [][pc = "awaiting_tool_output" => SubmitsBatch]_vars

\* C22: each time requires_action is observed in agent2_poc and the
\* arguments of every pending generate_image call parse, exactly one
\* submission is made, with one output per pending generate_image call in
\* pending order and none for other calls; when the arguments of one do not
\* parse, nothing is submitted and the exception reply is returned.
C22_OneBatchPerRound ==
    [][pc = "awaiting_tool_output"
       => IF BadArguments
          THEN /\ submits' = submits
               /\ pc' = "done"
               /\ reply' = Raised(variant)
          ELSE SubmitsBatch]_vars

\* a batch was submitted for two pending calls, the first of another name
\* and the second a generate_image call whose image came back empty
C22_Witness ==
    /\ variant = "agent2" /\ pc = "polling"
    /\ submits = 1
    /\ Len(tool_outputs) = 1
    /\ tool_outputs[1] = [tool_call_id |-> 2, status |-> "failed"]

\* ------------------------------------------------------------------------
\* Properties of the prompt handler, one session at a time
\* ------------------------------------------------------------------------
\* what a run of main with a prompt can change besides the clock
handled == <<chats, threads, messages, current_chat_id, ui>>

\* the step is a run of main that handled a prompt
PromptStep == ui'.handler = "prompt" /\ handled' # handled

\* the row of chat c had a thread_id before the step
HadThread(c) == HasChat(chats, c) /\ Truthy(ChatRow(chats, c).thread_id)

\* C23: a prompt in a chat whose row has a thread_id makes no create_thread
\* call and is sent to the stored thread; a prompt in a chat without one
\* makes exactly one create_thread call, and when the turn is sent it is
\* sent to the new thread, whose id the row then holds.
C23_LazyThread ==
    [][(PromptStep /\ HasChat(chats', current_chat_id'))
       => IF HadThread(current_chat_id')
          THEN /\ ui'.create_thread_calls = 0
               /\ ui'.sent_to = ChatRow(chats, current_chat_id').thread_id
               /\ DOMAIN threads' = DOMAIN threads
          ELSE /\ ui'.create_thread_calls = 1
               /\ ui'.sent_to # NULL
                    => /\ ui'.sent_to \notin DOMAIN threads
                       /\ DOMAIN threads' = DOMAIN threads \cup {ui'.sent_to}
                       /\ ChatRow(chats', current_chat_id').thread_id
                            = ui'.sent_to]_vars

\* the first prompt of a second chat: one create_thread call gave th2, the
\* row holds it and the turn went to it, while the first chat keeps th1
C23_Witness ==
    /\ ui.handler = "prompt" /\ ui.create_thread_calls = 1
    /\ ui.sent_to = "th2"
    /\ DOMAIN threads = {"th1", "th2"}
    /\ threads["th2"] >= 1
    /\ HasChat(chats, current_chat_id)
    /\ ChatRow(chats, current_chat_id).thread_id = "th2"
    /\ \E i \in 1..Len(chats) : chats[i].thread_id = "th1"

\* the handler made its create_thread call and sent nothing
ThreadFailed == ui'.create_thread_calls = 1 /\ ui'.sent_to = NULL

\* C24: when create_thread fails for a prompt in a chat without a thread,
\* nothing is appended or run on any remote thread, and the chat's row
\* (thread_id, title, updated_at) and the session's buffer stay as they
\* were.
C24_FailedThreadStops ==
    [][(PromptStep /\ ThreadFailed)
       => /\ threads' = threads
          /\ messages' = messages
          /\ \A i \in 1..Len(chats) : \E j \in 1..Len(chats') : chats'[j] = chats[i]
          /\ HasChat(chats', current_chat_id')
          /\ ~Truthy(ChatRow(chats', current_chat_id').thread_id)
          /\ ChatRow(chats', current_chat_id').title \notin PromptTitles]_vars

\* create_thread has just failed for a prompt in a fresh chat, while an
\* older chat has its thread: the fresh chat's row and the buffer are
\* untouched and the thread of the older chat has no new turn
C24_Witness ==
    /\ ui.handler = "prompt"
    /\ ui.create_thread_calls = 1 /\ ui.sent_to = NULL
    /\ DOMAIN threads = {"th1"}
    /\ messages = 0
    /\ HasChat(chats, current_chat_id)
    /\ ChatRow(chats, current_chat_id).thread_id = NULL
    /\ ChatRow(chats, current_chat_id).title = DefaultTitle
    /\ Len(chats) = 2

\* ------------------------------------------------------------------------
\* The prompt handler run by two sessions on the same chat, followed call
\* by call of the store and of the remote
\* ------------------------------------------------------------------------
SharedChat == "c1"

\* what the prompt handler of these sessions leaves alone
raceframe == <<users, clock, nextChatId, deletedChats, call, sessvars,
               nextAsst, goc, ui, sendvars, title_input, new_title,
               remote_thread, formatted_messages>>

\* a session whose run of main has reached the prompt handler: thread_id is
\* the handler's local variable, buffer the length of the session's
\* messages, wrote records the thread-ID write, sent_to the thread the turn
\* went to
HandlerStart == [pc |-> "read", has_thread |-> FALSE, thread_id |-> NULL,
                 buffer |-> 0, wrote |-> FALSE, sent_to |-> NULL]

\* chat_details = db.get_chat_details(current_chat_id)
HRead(s) ==
    /\ proc[s].pc = "read"
    /\ LET chat_details == get_chat_details(chats, SharedChat)
       IN proc' = [proc EXCEPT
                     ![s].has_thread = ~NeedsThread(chat_details),
                     ![s].thread_id = IF NeedsThread(chat_details) THEN NULL
                                      ELSE chat_details[1].thread_id,
                     ![s].pc = IF NeedsThread(chat_details) THEN "create"
                               ELSE "append"]
    /\ UNCHANGED <<chats, threads, raceframe>>

\* thread_id = assistant.create_thread(); if not thread_id: return
HCreateThread(s, threadOk) ==
    /\ proc[s].pc = "create"
    /\ threadOk => FreshThread # NULL
    /\ IF threadOk
       THEN /\ threads' = threads @@ (FreshThread :> 0)
            /\ proc' = [proc EXCEPT ![s].thread_id = FreshThread,
                                    ![s].pc = "write"]
       ELSE /\ threads' = threads
            /\ proc' = [proc EXCEPT ![s].pc = "done"]
    /\ UNCHANGED <<chats, raceframe>>

\* db.update_chat(current_chat_id, thread_id=thread_id)
HWriteThread(s) ==
    /\ proc[s].pc = "write"
    /\ chats' = update_chat(chats, SharedChat, proc[s].thread_id, NULL, clock)
    /\ proc' = [proc EXCEPT ![s].wrote = TRUE, ![s].pc = "append"]
    /\ UNCHANGED <<threads, raceframe>>

\* the append to the session's buffer and, for a buffer of one, the title
HTitle(s, prompt) ==
    /\ proc[s].pc = "append"
    /\ LET n == Plus(proc[s].buffer, 1)
       IN /\ chats' = IF n = 1
                      THEN update_chat(chats, SharedChat, NULL,
                                       generate_chat_title(prompt), clock)
                      ELSE chats
          /\ proc' = [proc EXCEPT ![s].buffer = n, ![s].pc = "send"]
    /\ UNCHANGED <<threads, raceframe>>

\* send_message(thread_id, ...), the append of the reply and the last
\* update_chat(current_chat_id)
HSend(s, sent) ==
    /\ proc[s].pc = "send"
    /\ threads' = [threads EXCEPT ![proc[s].thread_id] = send_message_turns(@, sent)]
    /\ chats' = update_chat(chats, SharedChat, NULL, NULL, clock)
    /\ proc' = [proc EXCEPT ![s].sent_to = proc[s].thread_id,
                            ![s].buffer = Plus(@, 1),
                            ![s].pc = "done"]
    /\ UNCHANGED raceframe

\* the user of the session submits the next prompt
HAgain(s) ==
    /\ proc[s].pc = "done"
    /\ proc[s].sent_to # NULL
    /\ proc' = [proc EXCEPT ![s].pc = "read"]
    /\ UNCHANGED <<chats, threads, raceframe>>

\* two sessions of the same user have the same new chat as current chat
InitRace ==
    /\ users = create_user([u \in {} |-> [assistant_id |-> NULL]],
                           SharedUser, AsstPool[1])
    /\ chats = create_chat(<<>>, SharedChat, SharedUser, DefaultTitle, NULL, 0)
    /\ clock = 0 /\ nextChatId = 2 /\ deletedChats = {} /\ call = NoCall
    /\ session_user = NULL /\ current_chat_id = NULL /\ messages = 0
    /\ assistant = FALSE /\ assistant_id = NULL
    /\ threads = [t \in {} |-> 0] /\ nextAsst = 2 /\ goc = NoGoc /\ ui = NoUi
    /\ IdleSend
    /\ proc = [s \in Sessions |-> HandlerStart]
    /\ title_input = NULL /\ new_title = NULL
    /\ remote_thread = NULL /\ formatted_messages = NULL

NextRace ==
    \/ \E s \in Sessions : HRead(s)
    \/ \E s \in Sessions, threadOk \in BOOLEAN :
          HCreateThread(s, threadOk)
    \/ \E s \in Sessions : HWriteThread(s)
    \/ \E s \in Sessions, prompt \in Prompts : HTitle(s, prompt)
    \/ \E s \in Sessions, sent \in SendResults : HSend(s, sent)
    \/ \E s \in Sessions : HAgain(s)

SpecRace == InitRace /\ [][NextRace]_vars

\* C25: however the steps of the two sessions interleave, the chat's
\* thread_id is written at most once, and a turn that has been sent went to
\* the thread the chat row holds.
C25_OneThreadPerChat ==
    /\ Cardinality({s \in Sessions : proc[s].wrote}) <= 1
    /\ \A s \in Sessions :
          proc[s].sent_to # NULL
          => proc[s].sent_to = ChatRow(chats, SharedChat).thread_id

\* ------------------------------------------------------------------------
\* Properties of the persona client and of the users table
\* ------------------------------------------------------------------------
\* the session's user has a cached persona id
HasCached ==
    /\ session_user \in DOMAIN users
    /\ Truthy(users[session_user].assistant_id)

\* get_or_create_assistant called now, and once more on its own result,
\* with the retrieve confirming the cached id both times
ConfirmedTwice(createOk) ==
    LET g1 == get_or_create_assistant(users, session_user, TRUE, createOk, FreshAsst)
        g2 == get_or_create_assistant(g1.users, session_user, TRUE, createOk, FreshAsst)
    IN /\ g1.goc.ret = users[session_user].assistant_id
       /\ g1.goc.create_calls = 0 /\ g1.goc.created = NULL
       /\ g1.users = users
       /\ g2.goc.ret = g1.goc.ret
       /\ g2.goc.create_calls = 0
       /\ g2.users = users

\* C26: when the retrieve confirms the cached persona id,
\* get_or_create_assistant returns that id, creates no persona and leaves
\* the users table as it is, and called again it returns the same id.
C26_ConfirmedIsKept ==
    /\ [](HasCached => \A createOk \in BOOLEAN : ConfirmedTwice(createOk))
    /\ [][(/\ ui'.handler = "api_key"
            /\ goc'.retrieve_calls = 1 /\ goc'.ret = goc'.cached)
           => /\ users' = users
              /\ goc'.create_calls = 0
              /\ nextAsst' = nextAsst
              /\ assistant_id' = goc'.cached]_vars

\* a later session of the user has entered its API key: the persona a1
\* created by an earlier session was confirmed and is the session's persona
C26_Witness ==
    /\ ui.handler = "api_key"
    /\ goc.cached = "a1" /\ goc.retrieve_calls = 1 /\ goc.ret = "a1"
    /\ goc.create_calls = 0
    /\ assistant_id = "a1"
    /\ nextAsst = 2
    /\ users[session_user].assistant_id = "a1"

\* the API-key step's persona creation raised
CreateFailed == goc'.create_calls = 1 /\ goc'.created = NULL

\* C27: when the persona creation fails, get_or_create_assistant returns
\* None and the users table is left as it was (a stale cached id stays in
\* the row), the session's assistant_id stays unset, and a session without
\* an assistant_id handles no prompt.
C27_FailedCreationKeepsRow ==
    /\ [][(ui'.handler = "api_key" /\ CreateFailed)
           => /\ goc'.ret = NULL
              /\ users' = users
              /\ users'[session_user].assistant_id = goc'.cached
              /\ assistant_id' = NULL]_vars
    /\ [][~Truthy(assistant_id) => ui'.handler # "prompt"]_vars

\* the retrieve of the cached a1 failed and so did the creation: the row
\* still holds a1 and the session has no persona
C27_Witness ==
    /\ ui.handler = "api_key"
    /\ goc.cached = "a1" /\ goc.retrieve_calls = 1
    /\ goc.create_calls = 1 /\ goc.created = NULL /\ goc.ret = NULL
    /\ users[session_user].assistant_id = "a1"
    /\ assistant /\ assistant_id = NULL

\* C28: create_user on an id that has a users row leaves the users table
\* as it is, whatever assistant_id it is called with, so a user who starts
\* another session keeps the persona cached before.
C28_CreateUserKeepsRow ==
    /\ [](\A u \in DOMAIN users : \A a \in AsstIds \cup {NULL} :
            create_user(users, u, a) = users)
    /\ [][(ui'.handler = "start" /\ session_user' \in DOMAIN users)
           => users' = users]_vars

\* a user whose persona a1 is cached has just started another session: the
\* row still holds a1 while the new session has no persona yet
C28_Witness ==
    /\ ui.handler = "start"
    /\ session_user \in DOMAIN users
    /\ users[session_user].assistant_id = "a1"
    /\ ~assistant /\ assistant_id = NULL
    /\ nextAsst = 2

\* ------------------------------------------------------------------------
\* The current chat of a session
\* ------------------------------------------------------------------------
\* main gets as far as the chat input: a persona is set
ReachesPrompt == session_user # NULL /\ assistant /\ Truthy(assistant_id)

\* the run of main that would handle a prompt now: its restore and its
\* welcome chat come before the handler
RunBeforePrompt(listOk) ==
    RunMain(chats, threads, SessionState, assistant, assistant_id,
            session_user, listOk, clock, FreshChat)

\* C29: whenever the prompt handler runs, current_chat_id names an existing
\* chat row (get_chat_details does not return None), after any sequence of
\* new-chat, select-chat and delete-chat steps of the session.
C29_CurrentChatExists ==
    /\ ReachesPrompt
         => \A listOk \in BOOLEAN :
               LET r == RunBeforePrompt(listOk)
               IN (r.created => HasFreshChat)
                  => get_chat_details(r.chats, r.st.current_chat_id) # <<>>
    /\ ui.handler = "prompt" => HasChat(chats, current_chat_id)

\* the user's last chat, which was the current one, has just been deleted:
\* the run made a welcome chat and it is the current chat
C29_Witness ==
    /\ ReachesPrompt
    /\ ui.handler = "delete_chat"
    /\ deletedChats = {"c1"}
    /\ Len(chats) = 1
    /\ chats[1].id = "c2" /\ chats[1].title = WelcomeTitle
    /\ current_chat_id = "c2"
    /\ messages = 0

\* ------------------------------------------------------------------------
\* The driver with prompts of different texts
\* ------------------------------------------------------------------------
\* a first message and a later one
TwoPrompts == Prompts \cup {"and then?"}

\* the interactions of main within one second of the store's clock
NextTitles ==
    \/ \E u \in SessionUsers : StartSession(u)
    \/ \E retrieveOk, createOk, listOk \in BOOLEAN :
          EnterApiKey(retrieveOk, createOk, listOk)
    \/ NewChat
    \/ \E c \in ChatIds : \E listOk \in Answers(Loads(c)) : SelectChat(c, listOk)
    \/ \E c \in ChatIds : \E listOk \in Answers(c = current_chat_id) :
          DeleteChat(c, listOk)
    \/ \E prompt \in TwoPrompts, sent \in SendResults :
          \E threadOk \in Answers(~Loads(current_chat_id)) :
            \E listOk \in Answers(Restores(chats)) :
              SubmitPrompt(prompt, threadOk, sent, listOk, 0)

SpecTitles == Init /\ [][NextTitles]_vars

\* the remote thread of chat c held turns before the step
HadTurns(c) == HadThread(c) /\ threads[ChatRow(chats, c).thread_id] >= 1

\* C30: a prompt handled in a chat whose remote thread already holds
\* earlier turns leaves the chat's title as it is, also after the chat was
\* loaded again in a new session or its history listing failed.
C30_TitleOnlyOnce ==
    [][(PromptStep /\ HadTurns(current_chat_id'))
       => ChatRow(chats', current_chat_id').title
            = ChatRow(chats, current_chat_id').title]_vars

====
